---------------------------- MODULE Spec2Model ----------------------------
(***************************************************************************)
(* A model of containernet/containernet-script.py: the Network class       *)
(* (topology construction, stop, destructor) and the run() test driver,    *)
(* together with the background proxy server that run() launches on h0.    *)
(*                                                                         *)
(* Texts that the script inspects character by character (the output of a  *)
(* node command that is stripped or parsed) are sequences of one-character *)
(* strings; texts that are only built by formatting are strings.           *)
(***************************************************************************)
EXTENDS Integers, Sequences, FiniteSets, TLC

VARIABLES
    pc,          \* position of the script (the statement about to execute)
    netAssigned, \* self.net has been assigned (line 30)
    netState,    \* "new" | "started": net.start() has returned (line 51)
    nodes,       \* nodes added to the Containernet object
    links,       \* links added to the Containernet object
    natArgs,     \* the arguments addNatNode has been called with, in order
    cmds,        \* node.cmd() calls issued so far: [node, cmd]
    out,         \* what p() has printed so far
    res,         \* local res of run(): the last parsed exit code
    catOut,      \* what net.h0.cmd('cat proxy-output') returned
    addr,        \* local addr of run()
    exc,         \* the exception the catch-all caught: [type, at]
    stopCalls,   \* calls of Network.stop(): [by, result, propagated]
    deleted,     \* Network.__del__ has run
    srv,         \* the background proxy server: none/forked/opened/addr/log
    file         \* content of proxy-output on h0 (once it exists)

vars == <<pc, netAssigned, netState, nodes, links, natArgs, cmds, out, res,
          catOut, addr, exc, stopCalls, deleted, srv, file>>

\* The largest index handed to addNatNode when its naming is explored.
MaxIdx == 254

-----------------------------------------------------------------------------
(* Formatting and parsing, as Python does them *)

Digit == <<"0", "1", "2", "3", "4", "5", "6", "7", "8", "9">>

\* '%d' % n with the last digit only: a formatting that loses digits.
FmtD_LastDigit(n) == Digit[(n % 10) + 1]

\* '%d' % n for an integer n
RECURSIVE FmtD(_)
FmtD(n) ==
    IF n < 0 THEN "-" \o FmtD(-n)
    ELSE IF n < 10 THEN Digit[n + 1]
    ELSE FmtD(n \div 10) \o Digit[(n % 10) + 1]

\* a sequence of characters as one string
RECURSIVE Str(_)
Str(s) == IF s = <<>> THEN "" ELSE Head(s) \o Str(Tail(s))

Whitespace == {" ", "\t", "\n", "\r", "\f"}

RECURSIVE LStrip(_)
LStrip(s) ==
    IF s # <<>> /\ Head(s) \in Whitespace THEN LStrip(Tail(s)) ELSE s

RECURSIVE RStrip(_)
RStrip(s) ==
    IF s # <<>> /\ s[Len(s)] \in Whitespace
    THEN RStrip(SubSeq(s, 1, Len(s) - 1))
    ELSE s

\* str.strip(): leading and trailing whitespace removed
Strip(s) == RStrip(LStrip(s))

DigitVal(c) == CHOOSE d \in 0..9 : Digit[d + 1] = c

IsDigit(c) == \E d \in 0..9 : Digit[d + 1] = c

RECURSIVE DigitsVal(_)
DigitsVal(s) ==
    IF s = <<>> THEN 0
    ELSE 10 * DigitsVal(SubSeq(s, 1, Len(s) - 1)) + DigitVal(s[Len(s)])

\* int(s): surrounding whitespace ignored, an optional sign, decimal digits;
\* anything else is a ValueError (ok = FALSE).
PyInt(s) ==
    LET t == Strip(s)
        signed == t # <<>> /\ Head(t) \in {"+", "-"}
        d == IF signed THEN Tail(t) ELSE t
    IN  IF d # <<>> /\ \A k \in 1..Len(d) : IsDigit(d[k])
        THEN [ok |-> TRUE,
              val |-> IF signed /\ Head(t) = "-" THEN -DigitsVal(d)
                      ELSE DigitsVal(d)]
        ELSE [ok |-> FALSE, val |-> 0]

\* p(*args): info() joins its arguments with a blank; one entry per call
P1(a) == a

P2(a, b) == a \o " " \o b

-----------------------------------------------------------------------------
(* The topology: what Network.__init__ and addNatNode hand to Containernet *)

Node(name, cls) ==
    [name |-> name, cls |-> cls, ip |-> "", prefixLen |-> "",
     defaultRoute |-> "", subnet |-> "", inetIntf |-> "", localIntf |-> "",
     dimage |-> ""]

Link(n1, n2) ==
    [node1 |-> n1, node2 |-> n2, intfName1 |-> "", ip1 |-> "",
     prefixLen1 |-> ""]

S0 == Node("s0", "Switch")

H0 == [Node("h0", "Docker") EXCEPT
          !.ip = "10.0.0.100", !.dimage = "hc-containernet-base"]

LinkS0H0 == Link("s0", "h0")

\* locals of addNatNode(idx)
InetIntf(idx) == "nat" \o FmtD(idx) \o "-eth0"

LocalIntf(idx) == "nat" \o FmtD(idx) \o "-eth1"

LocalIP(idx) == "192.168." \o FmtD(idx) \o ".1"

LocalSubnet(idx) == "192.168." \o FmtD(idx) \o ".0/24"

NatName(idx) == "nat" \o FmtD(idx)

SwitchName(idx) == "s" \o FmtD(idx)

HostName(idx) == "d" \o FmtD(idx)

HostIP(idx) == "192.168." \o FmtD(idx) \o ".100"

\* the NAT host: the LAN router
NatHost(idx) ==
    [Node(NatName(idx), "NAT") EXCEPT
        !.subnet = LocalSubnet(idx), !.inetIntf = InetIntf(idx),
        !.localIntf = LocalIntf(idx)]

LanSwitch(idx) == Node(SwitchName(idx), "Switch")

\* WAN link from router to backbone switch
WanLink(idx) ==
    [Link(NatName(idx), S0.name) EXCEPT !.intfName1 = InetIntf(idx)]

\* LAN link from router to LAN switch; natParams carries ip = localIP/24,
\* which Containernet splits at the slash
LanLink(idx) ==
    [Link(NatName(idx), SwitchName(idx)) EXCEPT
        !.intfName1 = LocalIntf(idx), !.ip1 = LocalIP(idx),
        !.prefixLen1 = "24"]

\* the LAN host; Containernet splits ip '192.168.N.100/24' at the slash
LanHost(idx) ==
    [Node(HostName(idx), "Docker") EXCEPT
        !.ip = HostIP(idx), !.prefixLen = "24",
        !.dimage = "hc-containernet-base",
        !.defaultRoute = "via " \o LocalIP(idx)]

\* The LAN host linked to the backbone switch instead of its LAN switch.
HostLink_ToBackbone(idx) == Link(HostName(idx), S0.name)

\* the link of the LAN host to the LAN switch
HostLink(idx) == Link(HostName(idx), SwitchName(idx))

\* node.IP()
IP(name) == (CHOOSE n \in nodes : n.name = name).ip

-----------------------------------------------------------------------------
(* The initial state: run() is about to construct Network() *)

NoExc == [type |-> "none", at |-> "none"]

Init ==
    /\ pc = "Containernet"
    /\ netAssigned = FALSE
    /\ netState = "new"
    /\ nodes = {}
    /\ links = {}
    /\ natArgs = <<>>
    /\ cmds = <<>>
    /\ out = <<>>
    /\ res = 0
    /\ catOut = <<>>
    /\ addr = ""
    /\ exc = NoExc
    /\ stopCalls = <<>>
    /\ deleted = FALSE
    /\ srv = "none"
    /\ file = <<>>

-----------------------------------------------------------------------------
(* Network.__init__ *)

\* net = self.net = Containernet(controller=Controller)
NewContainernet ==
    /\ pc = "Containernet"
    /\ netAssigned' = TRUE
    /\ pc' = "addController"
    /\ UNCHANGED <<netState, nodes, links, natArgs, cmds, out, res, catOut,
                   addr, exc, stopCalls, deleted, srv, file>>

\* net.addController('c0')
AddController ==
    /\ pc = "addController"
    /\ pc' = "addSwitch"
    /\ UNCHANGED <<netAssigned, netState, nodes, links, natArgs, cmds, out,
                   res, catOut, addr, exc, stopCalls, deleted, srv, file>>

\* s0 = self.s0 = net.addSwitch('s0')
AddSwitchS0 ==
    /\ pc = "addSwitch"
    /\ nodes' = nodes \cup {S0}
    /\ pc' = "addDocker"
    /\ UNCHANGED <<netAssigned, netState, links, natArgs, cmds, out, res,
                   catOut, addr, exc, stopCalls, deleted, srv, file>>

\* h0 = self.h0 = net.addDocker('h0', ip = '10.0.0.100', ...)
AddDockerH0 ==
    /\ pc = "addDocker"
    /\ nodes' = nodes \cup {H0}
    /\ pc' = "addLink"
    /\ UNCHANGED <<netAssigned, netState, links, natArgs, cmds, out, res,
                   catOut, addr, exc, stopCalls, deleted, srv, file>>

\* net.addLink(s0, h0)
AddLinkS0H0 ==
    /\ pc = "addLink"
    /\ links' = links \cup {LinkS0H0}
    /\ pc' = "addNatNode"
    /\ UNCHANGED <<netAssigned, netState, nodes, natArgs, cmds, out, res,
                   catOut, addr, exc, stopCalls, deleted, srv, file>>

\* d1 = self.d1 = self.addNatNode(1); d2 = self.d2 = self.addNatNode(2)
CallAddNatNode ==
    /\ pc = "addNatNode"
    /\ natArgs' = Append(natArgs, Len(natArgs) + 1)
    /\ pc' = "nat_addHost"
    /\ UNCHANGED <<netAssigned, netState, nodes, links, cmds, out, res,
                   catOut, addr, exc, stopCalls, deleted, srv, file>>

\* the argument of the addNatNode call in progress
Idx == natArgs[Len(natArgs)]

NatAddHost ==
    /\ pc = "nat_addHost"
    /\ nodes' = nodes \cup {NatHost(Idx)}
    /\ pc' = "nat_addSwitch"
    /\ UNCHANGED <<netAssigned, netState, links, natArgs, cmds, out, res,
                   catOut, addr, exc, stopCalls, deleted, srv, file>>

NatAddSwitch ==
    /\ pc = "nat_addSwitch"
    /\ nodes' = nodes \cup {LanSwitch(Idx)}
    /\ pc' = "nat_wanLink"
    /\ UNCHANGED <<netAssigned, netState, links, natArgs, cmds, out, res,
                   catOut, addr, exc, stopCalls, deleted, srv, file>>

NatWanLink ==
    /\ pc = "nat_wanLink"
    /\ links' = links \cup {WanLink(Idx)}
    /\ pc' = "nat_lanLink"
    /\ UNCHANGED <<netAssigned, netState, nodes, natArgs, cmds, out, res,
                   catOut, addr, exc, stopCalls, deleted, srv, file>>

NatLanLink ==
    /\ pc = "nat_lanLink"
    /\ links' = links \cup {LanLink(Idx)}
    /\ pc' = "nat_addDocker"
    /\ UNCHANGED <<netAssigned, netState, nodes, natArgs, cmds, out, res,
                   catOut, addr, exc, stopCalls, deleted, srv, file>>

NatAddDocker ==
    /\ pc = "nat_addDocker"
    /\ nodes' = nodes \cup {LanHost(Idx)}
    /\ pc' = "nat_hostLink"
    /\ UNCHANGED <<netAssigned, netState, links, natArgs, cmds, out, res,
                   catOut, addr, exc, stopCalls, deleted, srv, file>>

\* self.net.addLink(host, switch); return host
NatHostLink ==
    /\ pc = "nat_hostLink"
    /\ links' = links \cup {HostLink(Idx)}
    /\ pc' = IF Len(natArgs) < 2 THEN "addNatNode" ELSE "start"
    /\ UNCHANGED <<netAssigned, netState, nodes, natArgs, cmds, out, res,
                   catOut, addr, exc, stopCalls, deleted, srv, file>>

\* net.start()
NetStart ==
    /\ pc = "start"
    /\ netState' = "started"
    /\ pc' = "ping1"
    /\ UNCHANGED <<netAssigned, nodes, links, natArgs, cmds, out, res,
                   catOut, addr, exc, stopCalls, deleted, srv, file>>

InitPcs ==
    {"Containernet", "addController", "addSwitch", "addDocker", "addLink",
     "addNatNode", "nat_addHost", "nat_addSwitch", "nat_wanLink",
     "nat_lanLink", "nat_addDocker", "nat_hostLink", "start"}


\* Any call of __init__ into the framework raises: line 123 is outside the
\* try of run(), so the exception leaves run().  The caught variant hands it
\* to the catch-all of run() instead.
InitRaise_Caught ==
    /\ pc \in InitPcs
    /\ exc' = [type |-> "Exception", at |-> pc]
    /\ pc' = "except"
    /\ UNCHANGED <<netAssigned, netState, nodes, links, natArgs, cmds, out,
                   res, catOut, addr, stopCalls, deleted, srv, file>>

InitRaise ==
    /\ pc \in InitPcs
    /\ pc' = "raised"
    /\ UNCHANGED <<netAssigned, netState, nodes, links, natArgs, cmds, out,
                   res, catOut, addr, exc, stopCalls, deleted, srv, file>>

-----------------------------------------------------------------------------
(* run(): the test sequence inside try *)

\* what 'ping ... > /dev/null 2>&1; echo $?' can make node.cmd() return
PingOutputs ==
    {<<"0", "\n">>, <<"1", "\n">>, <<"2", "\n">>, <<"1", "2", "7", "\n">>,
     <<>>}

\* what proxy-cli can make node.cmd() return
CliOutputs == {"ok", "error"}

PingCmd(target) == "ping -c1 " \o IP(target)

\* helper exitCode(node, cmd) followed by p('GOT EXIT CODE: %d' % res);
\* int() raising ValueError is caught by the catch-all
ExitCodeStep(at, node, target, next) ==
    /\ pc = at
    /\ \E o \in PingOutputs :
         LET r == PyInt(o)
             line == IP(node) \o ": " \o PingCmd(target)
         IN  /\ cmds' = Append(cmds,
                    [node |-> node,
                     cmd |-> PingCmd(target) \o " > /dev/null 2>&1; echo $?"])
             /\ IF r.ok
                THEN /\ res' = r.val
                     /\ out' = out \o <<P1(line),
                                  P1("GOT EXIT CODE: " \o FmtD(r.val))>>
                     /\ exc' = exc
                     /\ pc' = next
                ELSE /\ res' = res
                     /\ out' = Append(out, P1(line))
                     /\ exc' = [type |-> "ValueError", at |-> at]
                     /\ pc' = "except"
    /\ UNCHANGED <<netAssigned, netState, nodes, links, natArgs, catOut,
                   addr, stopCalls, deleted, srv, file>>

\* make sure we can ping from LAN node 1 to public host
Ping1 == ExitCodeStep("ping1", "d1", "h0", "ping2")

\* make sure we can ping from LAN node 2 to public host
Ping2 == ExitCodeStep("ping2", "d2", "h0", "ping3")

\* make sure we CANNOT ping between LAN nodes
Ping3 == ExitCodeStep("ping3", "d1", "d2", "launch")

ProxyCmd ==
    "kitsune-p2p-proxy --bind-to kitsune-quic://10.0.0.100:0 > proxy-output 2>&1 &"

\* p('Starting Proxy Server'); net.h0.cmd('kitsune-p2p-proxy ... &')
LaunchProxy ==
    /\ pc = "launch"
    /\ out' = Append(out, P1("Starting Proxy Server"))
    /\ cmds' = Append(cmds, [node |-> "h0", cmd |-> ProxyCmd])
    /\ srv' = "forked"
    /\ pc' = "sleep"
    /\ UNCHANGED <<netAssigned, netState, nodes, links, natArgs, res, catOut,
                   addr, exc, stopCalls, deleted, file>>

\* time.sleep(1)
Sleep ==
    /\ pc = "sleep"
    /\ pc' = "read"
    /\ UNCHANGED <<netAssigned, netState, nodes, links, natArgs, cmds, out,
                   res, catOut, addr, exc, stopCalls, deleted, srv, file>>

CatError ==
    <<"c", "a", "t", ":", " ", "p", "r", "o", "x", "y", "-", "o", "u", "t",
      "p", "u", "t", ":", " ", "N", "o", " ", "s", "u", "c", "h", " ", "f",
      "i", "l", "e", " ", "o", "r", " ", "d", "i", "r", "e", "c", "t", "o",
      "r", "y", "\n">>

\* what 'cat proxy-output' returns on h0
Cat == IF srv \in {"none", "forked"} THEN CatError ELSE file

CatCmd == "cat proxy-output"

\* The read repeated, after another sleep, while nothing was read.
ReadAddr_Retry ==
    /\ pc = "read"
    /\ catOut' = Cat
    /\ addr' = Str(Strip(Cat))
    /\ cmds' = Append(cmds, [node |-> "h0", cmd |-> CatCmd])
    /\ IF addr' = ""
       THEN pc' = "sleep" /\ out' = out
       ELSE pc' = "cli1" /\ out' = Append(out, P1("PROXY ADDR: " \o addr'))
    /\ UNCHANGED <<netAssigned, netState, nodes, links, natArgs, res, exc,
                   stopCalls, deleted, srv, file>>

\* The read issued where the server launch belongs.
ReadAddr_BeforeLaunch ==
    /\ pc \in {"launch", "read"}
    /\ catOut' = Cat
    /\ addr' = Str(Strip(Cat))
    /\ cmds' = Append(cmds, [node |-> "h0", cmd |-> CatCmd])
    /\ out' = Append(out, P1("PROXY ADDR: " \o addr'))
    /\ pc' = "cli1"
    /\ UNCHANGED <<netAssigned, netState, nodes, links, natArgs, res, exc,
                   stopCalls, deleted, srv, file>>

\* addr = net.h0.cmd('cat proxy-output').strip(); p('PROXY ADDR: %s' % addr)
ReadAddr ==
    /\ pc = "read"
    /\ catOut' = Cat
    /\ addr' = Str(Strip(Cat))
    /\ cmds' = Append(cmds, [node |-> "h0", cmd |-> CatCmd])
    /\ out' = Append(out, P1("PROXY ADDR: " \o addr'))
    /\ pc' = "cli1"
    /\ UNCHANGED <<netAssigned, netState, nodes, links, natArgs, res, exc,
                   stopCalls, deleted, srv, file>>

CliCmd(a) == "proxy-cli " \o a

\* helper execPrint(node, 'proxy-cli %s' % addr)
ExecPrintStep(at, node, next) ==
    /\ pc = at
    /\ \E o \in CliOutputs :
         /\ cmds' = Append(cmds, [node |-> node, cmd |-> CliCmd(addr)])
         /\ out' = out \o <<P1(IP(node) \o ": " \o CliCmd(addr)), P1(o)>>
    /\ pc' = next
    /\ UNCHANGED <<netAssigned, netState, nodes, links, natArgs, res, catOut,
                   addr, exc, stopCalls, deleted, srv, file>>

Cli1 == ExecPrintStep("cli1", "d1", "cli2")

Cli2 == ExecPrintStep("cli2", "d2", "stop")

TestPcs ==
    {"ping1", "ping2", "ping3", "launch", "sleep", "read", "cli1", "cli2"}

\* The step raises and is then run again.
TestRaise_Retry ==
    /\ pc \in TestPcs
    /\ exc' = [type |-> "Exception", at |-> pc]
    /\ UNCHANGED <<pc, netAssigned, netState, nodes, links, natArgs, cmds,
                   out, res, catOut, addr, stopCalls, deleted, srv, file>>

\* a call of the test sequence raises (node.IP(), node.cmd(), p(), sleep)
TestRaise ==
    /\ pc \in TestPcs
    /\ exc' = [type |-> "Exception", at |-> pc]
    /\ pc' = "except"
    /\ UNCHANGED <<netAssigned, netState, nodes, links, natArgs, cmds, out,
                   res, catOut, addr, stopCalls, deleted, srv, file>>

\* str(sys.exc_info())
ExcInfo(e) == "(<class '" \o e.type \o "'>, " \o e.type \o "(), <traceback>)"

\* except: p('ERROR: %s', sys.exc_info())
Handler ==
    /\ pc = "except"
    /\ out' = Append(out, P2("ERROR: %s", ExcInfo(exc)))
    /\ pc' = "stop"
    /\ UNCHANGED <<netAssigned, netState, nodes, links, natArgs, cmds, res,
                   catOut, addr, exc, stopCalls, deleted, srv, file>>

-----------------------------------------------------------------------------
(* Network.stop, the explicit stop of run(), and the destructor *)

\* stop() without its try/except: what self.net.stop() raises, and the
\* AttributeError of a missing self.net, leave stop().
NetworkStop_NoCatch(assigned, raises) ==
    [result |-> IF ~assigned THEN "absent"
                ELSE IF raises THEN "raised" ELSE "ok",
     propagated |-> ~assigned \/ raises]

\* Network.stop(): try: self.net.stop() / except: pass
NetworkStop(assigned, raises) ==
    [result |-> IF ~assigned THEN "absent"
                ELSE IF raises THEN "raised" ELSE "ok",
     propagated |-> FALSE]

\* net.stop() at the end of run()
ExplicitStop ==
    /\ pc = "stop"
    /\ \E raises \in BOOLEAN :
         LET r == NetworkStop(netAssigned, raises)
         IN  /\ stopCalls' = Append(stopCalls,
                    [by |-> "run", result |-> r.result,
                     propagated |-> r.propagated])
             /\ pc' = IF r.propagated THEN "raised" ELSE "returned"
    /\ UNCHANGED <<netAssigned, netState, nodes, links, natArgs, cmds, out,
                   res, catOut, addr, exc, deleted, srv, file>>

\* the Network object is unreferenced once run() has been left
Unreferenced == pc \in {"returned", "raised"} /\ ~deleted

\* A destructor that leaves an already stopped network alone.
Del_OnlyIfNotStopped ==
    /\ Unreferenced
    /\ deleted' = TRUE
    /\ \E raises \in BOOLEAN :
         LET r == NetworkStop(netAssigned, raises)
         IN  stopCalls' =
               IF stopCalls # <<>> THEN stopCalls
               ELSE Append(stopCalls,
                      [by |-> "__del__", result |-> r.result,
                       propagated |-> r.propagated])
    /\ UNCHANGED <<pc, netAssigned, netState, nodes, links, natArgs, cmds,
                   out, res, catOut, addr, exc, srv, file>>

\* Network.__del__: self.stop()
Del ==
    /\ Unreferenced
    /\ deleted' = TRUE
    /\ \E raises \in BOOLEAN :
         LET r == NetworkStop(netAssigned, raises)
         IN  stopCalls' = Append(stopCalls,
                    [by |-> "__del__", result |-> r.result,
                     propagated |-> r.propagated])
    /\ UNCHANGED <<pc, netAssigned, netState, nodes, links, natArgs, cmds,
                   out, res, catOut, addr, exc, srv, file>>

-----------------------------------------------------------------------------
(* The background proxy server on h0: '... > proxy-output 2>&1 &' *)

\* the server runs until the network is stopped
ServerAlive == stopCalls = <<>>

\* the redirection creates proxy-output
ServerOpen ==
    /\ srv = "forked" /\ ServerAlive
    /\ srv' = "opened"
    /\ file' = <<>>
    /\ UNCHANGED <<pc, netAssigned, netState, nodes, links, natArgs, cmds,
                   out, res, catOut, addr, exc, stopCalls, deleted>>

\* the server prints the address it bound
ServerWriteAddr ==
    /\ srv = "opened" /\ ServerAlive
    /\ srv' = "addr"
    /\ file' = file \o <<"a", "\n">>
    /\ UNCHANGED <<pc, netAssigned, netState, nodes, links, natArgs, cmds,
                   out, res, catOut, addr, exc, stopCalls, deleted>>

\* the server prints something more (stdout and stderr both go to the file)
ServerWriteLog ==
    /\ srv = "addr" /\ ServerAlive
    /\ srv' = "log"
    /\ file' = file \o <<"b", "\n">>
    /\ UNCHANGED <<pc, netAssigned, netState, nodes, links, natArgs, cmds,
                   out, res, catOut, addr, exc, stopCalls, deleted>>

-----------------------------------------------------------------------------
(* The script *)

Next ==
    \/ NewContainernet \/ AddController \/ AddSwitchS0 \/ AddDockerH0
    \/ AddLinkS0H0 \/ CallAddNatNode \/ NatAddHost \/ NatAddSwitch
    \/ NatWanLink \/ NatLanLink \/ NatAddDocker \/ NatHostLink \/ NetStart
    \/ InitRaise
    \/ Ping1 \/ Ping2 \/ Ping3 \/ LaunchProxy \/ Sleep \/ ReadAddr
    \/ Cli1 \/ Cli2 \/ TestRaise \/ Handler
    \/ ExplicitStop \/ Del
    \/ ServerOpen \/ ServerWriteAddr \/ ServerWriteLog

Spec == Init /\ [][Next]_vars

-----------------------------------------------------------------------------
(* addNatNode as one call, for indexes other than the two of __init__ *)

\* the state of __init__ after line 44, before the first addNatNode call
InitAddr ==
    /\ pc = "addNatNode"
    /\ netAssigned = TRUE
    /\ netState = "new"
    /\ nodes = {S0, H0}
    /\ links = {LinkS0H0}
    /\ natArgs = <<>>
    /\ cmds = <<>>
    /\ out = <<>>
    /\ res = 0
    /\ catOut = <<>>
    /\ addr = ""
    /\ exc = NoExc
    /\ stopCalls = <<>>
    /\ deleted = FALSE
    /\ srv = "none"
    /\ file = <<>>

\* addNatNode(k), whole, for an index not passed before
AddNatNode ==
    /\ pc = "addNatNode"
    /\ Len(natArgs) < 2
    /\ \E k \in 1..MaxIdx :
         /\ \A n \in 1..Len(natArgs) : natArgs[n] # k
         /\ natArgs' = Append(natArgs, k)
         /\ nodes' = nodes \cup {NatHost(k), LanSwitch(k), LanHost(k)}
         /\ links' = links \cup {WanLink(k), LanLink(k), HostLink(k)}
    /\ UNCHANGED <<pc, netAssigned, netState, cmds, out, res, catOut, addr,
                   exc, stopCalls, deleted, srv, file>>

SpecAddr == InitAddr /\ [][AddNatNode]_vars

-----------------------------------------------------------------------------
(* Properties *)

\* the place of a statement in the text of __init__ and run()
PcOrder ==
    <<"Containernet", "addController", "addSwitch", "addDocker", "addLink",
      "nat_addHost", "nat_addSwitch", "nat_wanLink", "nat_lanLink",
      "nat_addDocker", "nat_hostLink", "addNatNode", "start", "ping1",
      "ping2", "ping3", "launch", "sleep", "read", "cli1", "cli2", "except",
      "stop", "returned", "raised">>

PcPos(p) == CHOOSE k \in 1..Len(PcOrder) : PcOrder[k] = p

\* how far the script is, the addNatNode calls counted
Progress(p, calls) ==
    IF PcPos(p) < PcPos("nat_addHost") THEN PcPos(p)
    ELSE IF PcPos(p) <= PcPos("addNatNode") THEN 100 + 20 * calls + PcPos(p)
    ELSE 200 + PcPos(p)

\* the node commands of a complete run, in order
ExpectedCmds ==
    <<[node |-> "d1",
       cmd |-> "ping -c1 10.0.0.100 > /dev/null 2>&1; echo $?"],
      [node |-> "d2",
       cmd |-> "ping -c1 10.0.0.100 > /dev/null 2>&1; echo $?"],
      [node |-> "d1",
       cmd |-> "ping -c1 192.168.2.100 > /dev/null 2>&1; echo $?"],
      [node |-> "h0",
       cmd |-> "kitsune-p2p-proxy --bind-to kitsune-quic://10.0.0.100:0 > proxy-output 2>&1 &"],
      [node |-> "h0", cmd |-> "cat proxy-output"],
      [node |-> "d1", cmd |-> "proxy-cli " \o addr],
      [node |-> "d2", cmd |-> "proxy-cli " \o addr]>>

CmdsInOrder ==
    /\ Len(cmds) <= Len(ExpectedCmds)
    /\ \A k \in 1..Len(cmds) : cmds[k] = ExpectedCmds[k]

\* C1: the steps of run() happen in the linear order build, start, three
\* pings (d1->h0, d2->h0, d1->d2), server launch on h0, read of proxy-output
\* on h0, proxy-cli on d1 then d2, stop: the commands issued are always a
\* prefix of that list, a command is issued only while the network is
\* started and not yet stopped, and the script never moves to an earlier
\* statement.
C1_LinearOrder ==
    /\ [](CmdsInOrder /\ (cmds # <<>> => netState = "started"))
    /\ [][cmds' # cmds =>
            /\ netState = "started"
            /\ stopCalls = <<>>
            /\ Len(cmds') = Len(cmds) + 1
            /\ SubSeq(cmds', 1, Len(cmds)) = cmds]_vars
    /\ [][pc' # pc =>
            Progress(pc', Len(natArgs')) > Progress(pc, Len(natArgs))]_vars

\* a complete run without any exception: all seven commands were issued
C1_Witness ==
    pc = "returned" /\ exc = NoExc /\ Len(cmds) = 7 /\ deleted

\* the number of commands issued once the step at a statement is done
CmdsThrough(at) ==
    CASE at = "ping1" -> 1
      [] at = "ping2" -> 2
      [] at = "ping3" -> 3
      [] at \in {"launch", "sleep"} -> 4
      [] at = "read" -> 5
      [] at = "cli1" -> 6
      [] at = "cli2" -> 7
      [] OTHER -> 0

\* C2: once a step of the test sequence has raised, the script is in the
\* handler, at the explicit stop or has returned (never back in the test
\* sequence, never left by an exception); no command of a later step is
\* issued; the exception information is the last thing printed; and when
\* run() has returned the explicit stop was made.
C2_CatchAll ==
    exc # NoExc =>
        /\ pc \in {"except", "stop", "returned"}
        /\ exc.at \in TestPcs
        /\ Len(cmds) <= CmdsThrough(exc.at)
        /\ pc \in {"stop", "returned"} =>
              /\ out # <<>>
              /\ out[Len(out)] = "ERROR: %s " \o ExcInfo(exc)
        /\ pc = "returned" =>
              /\ stopCalls # <<>>
              /\ stopCalls[1].by = "run"

\* the second ping raised: run() returned after the handler and the stop
C2_Witness ==
    /\ pc = "returned"
    /\ exc.at = "ping2"
    /\ Len(cmds) = 1
    /\ stopCalls # <<>>

\* C3: no call of Network.stop() lets an error out, whatever the underlying
\* stop does, so run() having made its explicit stop has returned normally.
C3_StopNeverPropagates ==
    /\ \A k \in 1..Len(stopCalls) : ~stopCalls[k].propagated
    /\ (\E k \in 1..Len(stopCalls) : stopCalls[k].by = "run") =>
          pc = "returned"

\* the underlying stop raised in the explicit stop and run() returned
C3_Witness ==
    /\ pc = "returned"
    /\ stopCalls # <<>>
    /\ stopCalls[1].by = "run"
    /\ stopCalls[1].result = "raised"

\* C4: the run goes on past a probe only when the probe passed: exit code 0
\* for the two probes to the public host, non-zero for the probe between
\* the LAN hosts.
C4_ProbesChecked ==
    /\ pc = "ping2" => res = 0
    /\ pc = "ping3" => res = 0
    /\ pc = "launch" => res # 0

Adj(n) ==
    {l.node2 : l \in {m \in links : m.node1 = n}}
        \cup {l.node1 : l \in {m \in links : m.node2 = n}}

\* the nodes reachable from the set from without passing through without
RECURSIVE Reach(_, _)
Reach(from, without) ==
    LET more == (UNION {Adj(n) : n \in from}) \ (from \cup {without})
    IN  IF more = {} THEN from ELSE Reach(from \cup more, without)

TopologyBuilt == pc = "start" \/ netState = "started"

Lan ==
    <<[d |-> "d1", s |-> "s1", nat |-> "nat1", intf |-> "nat1-eth1",
       gw |-> "192.168.1.1", other |-> "d2"],
      [d |-> "d2", s |-> "s2", nat |-> "nat2", intf |-> "nat2-eth1",
       gw |-> "192.168.2.1", other |-> "d1"]>>

\* C5: in the topology __init__ builds, dN is linked only to sN, sN only to
\* dN and to the LAN interface of natN (address 192.168.N.1), dN's default
\* route is via 192.168.N.1, and without passing natN nothing but dN and sN
\* is reachable from dN: not s0, not h0, not the other LAN host.
C5_LanIsolated ==
    TopologyBuilt =>
        \A N \in 1..2 :
            /\ Adj(Lan[N].d) = {Lan[N].s}
            /\ Adj(Lan[N].s) = {Lan[N].d, Lan[N].nat}
            /\ \A l \in links :
                  (l.node1 = Lan[N].nat /\ l.node2 = Lan[N].s) =>
                      /\ l.intfName1 = Lan[N].intf
                      /\ l.ip1 = Lan[N].gw
                      /\ l.prefixLen1 = "24"
            /\ \A n \in nodes :
                  n.name = Lan[N].d => n.defaultRoute = "via " \o Lan[N].gw
            /\ \A n \in nodes :
                  n.name = Lan[N].nat => n.localIntf = Lan[N].intf
            /\ Reach({Lan[N].d}, Lan[N].nat) = {Lan[N].d, Lan[N].s}
            /\ {"s0", "h0", Lan[N].other} \subseteq Reach({Lan[N].d}, "")

\* the network was built and started
C5_Witness == pc = "ping1" /\ Cardinality(links) = 7

\* every name, interface name, address and subnet in the topology
AllIds ==
    ({n.name : n \in nodes} \cup {n.ip : n \in nodes}
        \cup {n.subnet : n \in nodes} \cup {n.inetIntf : n \in nodes}
        \cup {n.localIntf : n \in nodes} \cup {l.intfName1 : l \in links}
        \cup {l.ip1 : l \in links}) \ {""}

\* C6: after addNatNode(i) and addNatNode(j) with distinct i, j in
\* 1..MaxIdx, the node names, interface names, router addresses, host
\* addresses and subnets in the topology are all different from each other
\* and from h0, s0 and 10.0.0.100: eight per call and those three, on three
\* nodes and three links per call.
C6_NoCollision ==
    /\ Cardinality(AllIds) = 3 + 8 * Len(natArgs)
    /\ Cardinality(nodes) = 2 + 3 * Len(natArgs)
    /\ Cardinality(links) = 1 + 3 * Len(natArgs)
    /\ {"h0", "s0", "10.0.0.100"} \subseteq AllIds

\* two calls were made, with indexes of different lengths and a shared digit
C6_Witness == natArgs = <<1, 211>> /\ Cardinality(nodes) = 8

\* the text up to its first line break
RECURSIVE FirstLine(_)
FirstLine(s) ==
    IF s = <<>> \/ Head(s) = "\n" THEN <<>>
    ELSE <<Head(s)>> \o FirstLine(Tail(s))

\* C7: the argument given to proxy-cli on d1 and on d2 is the first line of
\* what proxy-output held when it was read.
C7_FirstLine ==
    \A k \in 6..Len(cmds) :
        cmds[k].cmd = "proxy-cli " \o Str(FirstLine(catOut))

Reads == Cardinality({k \in 1..Len(cmds) : cmds[k].cmd = "cat proxy-output"})

\* C8: proxy-output is read at most once; the sleep and the read are taken
\* whatever the server has done; after the read addr is the stripped text
\* that one read returned, and the client steps are taken with it, also when
\* it is empty.
C8_SingleRead ==
    /\ Reads <= 1
    /\ pc = "sleep" => ENABLED Sleep
    /\ pc = "read" => Reads = 0 /\ ENABLED ReadAddr
    /\ pc \in {"cli1", "cli2"} =>
          /\ Reads = 1
          /\ addr = Str(Strip(catOut))
    /\ pc = "cli1" => ENABLED Cli1
    /\ pc = "cli2" => ENABLED Cli2
    /\ \A k \in 6..Len(cmds) :
          cmds[k].cmd = "proxy-cli " \o Str(Strip(catOut))

\* the read came before the server wrote its address, and both clients ran
\* with the empty string
C8_Witness ==
    /\ pc = "returned"
    /\ exc = NoExc
    /\ catOut = <<>>
    /\ Len(cmds) = 7
    /\ cmds[6].cmd = "proxy-cli "
    /\ cmds[7].cmd = "proxy-cli "
    /\ srv = "opened"

\* the calls of stop() that reached the underlying self.net.stop()
Attempts == SelectSeq(stopCalls, LAMBDA c : c.result # "absent")

\* C9: the underlying network stop is attempted at most once per Network
\* object.
C9_StopOnce == Len(Attempts) <= 1

\* C9 as amended: the underlying stop is attempted at most twice; after the
\* explicit stop of run() the destructor attempts it once more, so a run
\* that returned and whose Network object was destroyed made two attempts,
\* the first by run(), the second by __del__.
C9_StopTwice ==
    /\ Len(Attempts) <= 2
    /\ Len(Attempts) = 2 =>
          Attempts[1].by = "run" /\ Attempts[2].by = "__del__"
    /\ (pc = "returned" /\ deleted) => Len(Attempts) = 2

\* run() returned, the object was destroyed: two attempts
C9_Witness == pc = "returned" /\ deleted /\ Len(Attempts) = 2

\* C10: a failure of __init__ leaves run() (the catch-all never sees it):
\* on that path no command was issued, nothing of the test sequence was
\* printed, no explicit stop was made, and once the object is destroyed the
\* only stop attempt is the destructor's; and on every path on which
\* self.net was assigned a stop has been attempted by the time the object
\* is destroyed.
C10_InitFailure ==
    /\ exc # NoExc => exc.at \notin InitPcs
    /\ pc = "raised" =>
          /\ exc = NoExc
          /\ cmds = <<>>
          /\ out = <<>>
          /\ \A k \in 1..Len(stopCalls) : stopCalls[k].by = "__del__"
          /\ (deleted /\ netAssigned) =>
                Len(Attempts) = 1 /\ Attempts[1].by = "__del__"
    /\ (deleted /\ netAssigned) => Attempts # <<>>

\* the second addNatNode call raised, and the destructor stopped the network
C10_Witness ==
    /\ pc = "raised"
    /\ netAssigned
    /\ Len(natArgs) = 2
    /\ netState = "new"
    /\ deleted
    /\ Len(Attempts) = 1

=============================================================================
